---- MODULE Spec2Model ----
(***************************************************************************)
(* Transaction matching and recurrence detection                           *)
(* (src/services/transaction_finder.py).                                   *)
(*                                                                         *)
(* The state machines of this module:                                      *)
(*   Spec         - one run of group_similar_transactions, one loop        *)
(*                  iteration per step;                                    *)
(*   NormSpec     - normalize_merchant applied to every short text over a  *)
(*                  small alphabet;                                        *)
(*   RecSpec      - one run of identify_recurring_transactions, one loop   *)
(*                  iteration per step;                                    *)
(*   AltSpec      - RecSpec's steps on one merchant charged two prices in  *)
(*                  turn;                                                  *)
(*   NegSpec      - RecSpec's steps on records that include refunds;       *)
(*   ScenarioSpec - the sample statement of the test, grouped and then     *)
(*                  analysed;                                              *)
(*   RepeatSpec   - records of the sample in any order, grouped and        *)
(*                  analysed more than once;                               *)
(*   GapSpec      - RecSpec's steps on records up to five months apart;    *)
(*   SameDaySpec  - RecSpec's steps on records that share a date;          *)
(*   LinkSpec     - calls of one LinkFinder (src/services/link_finder.py); *)
(*   CsvSpec      - CSVParser.parse_csv on a file of the AMEX format       *)
(*                  (src/services/csv_parser.py), one row per step;        *)
(*   AppSpec      - the GUI thread and the analysis threads of AppWindow   *)
(*                  (src/gui/app_window.py), one access to a shared field  *)
(*                  or to the table per step.                              *)
(*                                                                         *)
(* A text is a sequence of one-character strings.  Amounts are integers in *)
(* cents, dates are day numbers.                                           *)
(***************************************************************************)
EXTENDS Integers, Sequences, FiniteSets, TLC

VARIABLES
    \* group_similar_transactions
    transactions,          \* the argument: a sequence of Transaction records
    similarity_threshold,  \* the argument
    groups,                \* the dict, in insertion order: <<[key, members]>>
    gi,                    \* records of `transactions` consumed by the for loop
    gpc,                   \* "idle" | "loop" | "done"
    \* normalize_merchant
    name,                  \* the argument
    normalized,            \* the value returned
    npc,                   \* "idle" | "call" | "done"
    \* identify_recurring_transactions
    grouped_transactions,  \* the argument: <<[key, members]>> in dict order
    min_occurrences,       \* the argument
    max_days_between,      \* the argument
    amount_variance_threshold, \* the argument, a fraction [num, den]
    recurring,             \* the result dict, in insertion order
    mi,                    \* groups of grouped_transactions consumed
    sorted_transactions,   \* the current merchant's records, by date
    ti,                    \* records of sorted_transactions consumed
    amount_groups,         \* the dict, in insertion order: <<[key, members]>>
    ci,                    \* clusters of amount_groups consumed
    rpc,                   \* "idle" | "merchant" | "cluster" | "check" | "done"
    \* a caller that runs the two functions on one input more than once
    run,                   \* number of the run under way
    first_groups,          \* what the first run's grouping returned
    first_recurring,       \* what the first run's detection returned
    \* LinkFinder (src/services/link_finder.py)
    known_merchants,       \* the dict, in insertion order: <<[key, members]>>,
                           \* members being the link
    cache,                 \* the dict of scraped results, same shape
    last_request_time,     \* seconds
    clock,                 \* time.time(), seconds
    requests,              \* the HTTP requests sent so far: <<[at, raised]>>
    calls,                 \* the get_cancellation_link calls made so far
    \* CSVParser.parse_csv (src/services/csv_parser.py)
    file_rows,             \* the rows csv.DictReader yields
    credit_card,           \* the file's base name
    csv_transactions,      \* the list `transactions` of parse_csv
    ri,                    \* rows consumed by the for loop
    ppc,                   \* "idle" | "loop" | "returned" | "TypeError"
    \* AppWindow (src/gui/app_window.py)
    tree,                  \* the rows of the results table: <<[merchant, cost]>>
    total_savings,         \* cents
    savings_var,           \* the total the label shows, cents
    recurring_transactions, \* the field: a dict <<[key, members]>>
    threads,               \* the analysis threads started so far, each a
                           \* record of its position and local variables
    main,                  \* the GUI thread: its position in _remove_item
    removed                \* the merchants whose rows were removed since the
                           \* last press of Analyze

gvars == <<transactions, similarity_threshold, groups, gi, gpc>>
nvars == <<name, normalized, npc>>
rvars == <<grouped_transactions, min_occurrences, max_days_between,
           amount_variance_threshold, recurring, mi, sorted_transactions, ti,
           amount_groups, ci, rpc>>
hvars == <<run, first_groups, first_recurring>>
lvars == <<known_merchants, cache, last_request_time, clock, requests, calls>>
pvars == <<file_rows, credit_card, csv_transactions, ri, ppc>>
avars == <<tree, total_savings, savings_var, recurring_transactions, threads, main,
           removed>>
yvars == <<lvars, pvars, avars>>
xvars == <<hvars, yvars>>
vars == <<gvars, nvars, rvars, xvars>>

(***************************************************************************)
(* Bounds of the model.                                                    *)
(***************************************************************************)
MaxTx == 4        \* longest input of group_similar_transactions
MaxNameLen == 4   \* longest text handed to normalize_merchant in NormSpec
MaxGroupTx == 4   \* most records in the mapping of identify_recurring_transactions
MaxRuns == 2      \* most analyses of one input by one caller
MaxCalls == 2     \* most get_cancellation_link calls on one LinkFinder
MaxClock == 4     \* latest second of the clock
MaxRows == 2      \* most rows of a statement file
MaxSparseTx == 5  \* most records in the mapping of GapSpec
MaxThreads == 2   \* most presses of Analyze

(***************************************************************************)
(* Characters.                                                             *)
(***************************************************************************)
UpperChars == <<"A","B","C","D","E","F","G","H","I","J","K","L","M",
                "N","O","P","Q","R","S","T","U","V","W","X","Y","Z">>
LowerChars == <<"a","b","c","d","e","f","g","h","i","j","k","l","m",
                "n","o","p","q","r","s","t","u","v","w","x","y","z">>
DigitChars == {"0","1","2","3","4","5","6","7","8","9"}
SpaceChars == {" "}

Range(s) == {s[i] : i \in DOMAIN s}

IsUpper(c) == c \in Range(UpperChars)
IsLower(c) == c \in Range(LowerChars)
IsDigit(c) == c \in DigitChars
IsSpace(c) == c \in SpaceChars
IsAlnum(c) == IsUpper(c) \/ IsLower(c) \/ IsDigit(c)

ToLower(c) ==
    IF IsUpper(c)
    THEN LowerChars[CHOOSE i \in DOMAIN UpperChars : UpperChars[i] = c]
    ELSE c

\* s[i..] starts with the lower-case literal lit, ignoring case
MatchCI(s, i, lit) ==
    /\ i + Len(lit) - 1 <= Len(s)
    /\ \A k \in 1..Len(lit) : ToLower(s[i + k - 1]) = lit[k]

\* s[i..] starts with the literal lit
MatchAt(s, i, lit) ==
    /\ i + Len(lit) - 1 <= Len(s)
    /\ \A k \in 1..Len(lit) : s[i + k - 1] = lit[k]

\* first index >= i of s that holds no whitespace (Len(s) + 1 when none)
RECURSIVE SkipSpace(_, _)
SkipSpace(s, i) ==
    IF i <= Len(s) /\ IsSpace(s[i]) THEN SkipSpace(s, i + 1) ELSE i

(***************************************************************************)
(* normalize_merchant, step by step.                                       *)
(***************************************************************************)
SuffixLiterals ==
    { <<"i","n","c",".">>, <<"l","l","c">>, <<"l","t","d",".">>,
      <<"c","o","r","p",".">>,
      <<"s","u","b","s","c","r","i","p","t","i","o","n">>,
      <<"m","e","m">> }

\* (Inc\.|LLC|Ltd\.|Corp\.|#\d+|Subscription|Mem) matches at s[j..], ignoring case
SuffixAt(s, j) ==
    \/ \E lit \in SuffixLiterals : MatchCI(s, j, lit)
    \/ j + 1 <= Len(s) /\ s[j] = "#" /\ IsDigit(s[j + 1])

\* mutant: line 119 left out
StripSuffix_Kept(s) == s

\* re.sub(r'\s*(Inc\.|LLC|Ltd\.|Corp\.|#\d+|Subscription|Mem).*$', '', name, IGNORECASE):
\* the leftmost match runs to the end of the text
StripSuffix(s) ==
    LET starts == {i \in 1..Len(s) : SuffixAt(s, SkipSpace(s, i))}
    IN  IF starts = {} THEN s
        ELSE SubSeq(s, 1, (CHOOSE i \in starts : \A k \in starts : i <= k) - 1)

\* \s+(?:in|at)\s+ matches at s[i..], ignoring case
LocationAt(s, i) ==
    /\ IsSpace(s[i])
    /\ LET j == SkipSpace(s, i)
       IN  /\ MatchCI(s, j, <<"i","n">>) \/ MatchCI(s, j, <<"a","t">>)
           /\ j + 2 <= Len(s)
           /\ IsSpace(s[j + 2])

\* re.sub(r'\s+(?:in|at)\s+.*$', '', name, IGNORECASE)
StripLocation(s) ==
    LET starts == {i \in 1..Len(s) : LocationAt(s, i)}
    IN  IF starts = {} THEN s
        ELSE SubSeq(s, 1, (CHOOSE i \in starts : \A k \in starts : i <= k) - 1)

\* \s+[A-Z]{2}(?:\s+|$) matches at s[i..]
StateCodeAt(s, i) ==
    /\ IsSpace(s[i])
    /\ LET j == SkipSpace(s, i)
       IN  /\ j + 1 <= Len(s)
           /\ IsUpper(s[j])
           /\ IsUpper(s[j + 1])
           /\ (j + 2 > Len(s) \/ IsSpace(s[j + 2]))

\* the index after the match of \s+[A-Z]{2}(?:\s+|$) at s[i..]
StateCodeEnd(s, i) == SkipSpace(s, SkipSpace(s, i) + 2)

\* re.sub(r'\s+[A-Z]{2}(?:\s+|$)', ' ', name): every match, left to right
RECURSIVE StripStateCodes(_, _)
StripStateCodes(s, i) ==
    IF i > Len(s) THEN <<>>
    ELSE IF StateCodeAt(s, i)
         THEN <<" ">> \o StripStateCodes(s, StateCodeEnd(s, i))
         ELSE <<s[i]>> \o StripStateCodes(s, i + 1)

\* ''.join(c.lower() for c in name if c.isalnum())
LowerAlnum(s) ==
    LET kept == SelectSeq(s, IsAlnum)
    IN  [i \in DOMAIN kept |-> ToLower(kept[i])]

\* str.replace(old, new): every occurrence of old, left to right
RECURSIVE Replace(_, _, _, _)
Replace(s, i, old, new) ==
    IF i > Len(s) THEN <<>>
    ELSE IF MatchAt(s, i, old)
         THEN new \o Replace(s, i + Len(old), old, new)
         ELSE <<s[i]>> \o Replace(s, i + 1, old, new)

normalize_merchant(raw) ==
    LET n1 == StripSuffix(raw)
        n2 == StripLocation(n1)
        n3 == StripStateCodes(n2, 1)
        n4 == LowerAlnum(n3)
        n5 == Replace(n4, 1, <<"a","m","z","n">>, <<"a","m","a","z","o","n">>)
    IN  Replace(n5, 1, <<"a","p","l","p","a","y">>, <<>>)

(***************************************************************************)
(* fuzz.ratio of thefuzz: int(round(100 * 2 * LCS(a, b) / (|a| + |b|))),   *)
(* the normalized Indel similarity; 100 for two empty texts.               *)
(***************************************************************************)
Max(x, y) == IF x >= y THEN x ELSE y

\* one row of the longest-common-subsequence table: row[j + 1] is the value
\* for the first j characters of b.  The length tests are always true; they
\* make each cell and each row a value before the next one is computed.
RECURSIVE LcsRow(_, _, _, _, _)
LcsRow(prev, c, b, j, acc) ==
    IF j > Len(b) THEN acc
    ELSE LET v == IF c = b[j] THEN prev[j] + 1 ELSE Max(prev[j + 1], acc[j])
             next == Append(acc, v)
         IN  IF Len(next) = j + 1 THEN LcsRow(prev, c, b, j + 1, next) ELSE next

RECURSIVE LcsRows(_, _, _, _)
LcsRows(a, b, i, prev) ==
    IF i > Len(a) THEN prev[Len(b) + 1]
    ELSE LET row == LcsRow(prev, a[i], b, 1, <<0>>)
         IN  IF Len(row) = Len(b) + 1 THEN LcsRows(a, b, i + 1, row) ELSE 0

LCS(a, b) == LcsRows(a, b, 1, [j \in 1..(Len(b) + 1) |-> 0])

\* round(num / den) as Python rounds: to the nearest integer, a tie to the even one
RoundHalfEven(num, den) ==
    LET q == num \div den
        r == num % den
    IN  IF 2 * r > den \/ (2 * r = den /\ q % 2 = 1) THEN q + 1 ELSE q

ratio(a, b) ==
    IF Len(a) + Len(b) = 0 THEN 100
    ELSE RoundHalfEven(200 * LCS(a, b), Len(a) + Len(b))

(***************************************************************************)
(* Inputs of group_similar_transactions.                                   *)
(***************************************************************************)
\* merchant texts: four plain ones, one with a store code, one that is a
\* stripped token only, one of whitespace only
MerchantPool ==
    { <<"a","a","a">>, <<"a","b","a">>, <<"a","b">>, <<"b","a">>,
      <<"A","b"," ","#","1">>, <<"M","e","m">>, <<" ">> }

DefaultSimilarityThreshold == 70

Thresholds == {0, 67, DefaultSimilarityThreshold, 100}

\* the Transaction dataclass; id stands for the identity of the object
Transaction(i, d, m, a) == [id |-> i, date |-> d, merchant |-> m, amount |-> a]

\* the merchant texts of the sample statement of test_transaction_extraction
Netflix123 == <<"N","e","t","f","l","i","x"," ","#","1","2","3">>
NetflixSubscription == <<"N","E","T","F","L","I","X"," ","S","U","B","S","C","R","I","P","T","I","O","N">>
AmazonPrime123 == <<"A","m","a","z","o","n"," ","P","r","i","m","e","*","1","2","3">>
AmazonPrimeMem == <<"A","m","a","z","o","n"," ","P","r","i","m","e"," ","M","e","m">>
AmznPrime == <<"A","M","Z","N"," ","P","r","i","m","e">>
GroceryStore == <<"G","r","o","c","e","r","y"," ","S","t","o","r","e">>

ScenarioMerchants ==
    {Netflix123, NetflixSubscription, AmazonPrime123,
     AmazonPrimeMem, AmznPrime, GroceryStore}

\* normalize_merchant and fuzz.ratio on the texts in use, computed once
MerchantKey == [m \in MerchantPool \cup ScenarioMerchants |-> normalize_merchant(m)]

KeyRatio ==
    [k \in {MerchantKey[m] : m \in DOMAIN MerchantKey}
              \X {MerchantKey[m] : m \in DOMAIN MerchantKey}
        |-> ratio(k[1], k[2])]

Key(m) == MerchantKey[m]
Similarity(m1, m2) == KeyRatio[<<Key(m1), Key(m2)>>]

(***************************************************************************)
(* Python dicts keep insertion order: a dict is a sequence of              *)
(* [key, members] entries with distinct keys.                              *)
(***************************************************************************)
DictKeys(d) == {d[i].key : i \in DOMAIN d}

DictGet(d, k) == d[CHOOSE i \in DOMAIN d : d[i].key = k].members

\* d[k] = v: replaces the value of an existing key in place, else appends
DictSet(d, k, v) ==
    IF k \in DictKeys(d)
    THEN [i \in DOMAIN d |-> IF d[i].key = k THEN [key |-> k, members |-> v] ELSE d[i]]
    ELSE Append(d, [key |-> k, members |-> v])

(***************************************************************************)
(* group_similar_transactions.                                             *)
(***************************************************************************)
\* mutant: the comparison of line 141 turned around
MatchingGroups_Flipped(gs, transaction, th) ==
    {i \in DOMAIN gs : Similarity(transaction.merchant, gs[i].key) <= th}

\* mutant: the comparison of line 141 made strict
MatchingGroups_Strict(gs, transaction, th) ==
    {i \in DOMAIN gs : Similarity(transaction.merchant, gs[i].key) > th}

\* mutant: no group ever matches
MatchingGroups_None(gs, transaction, th) == {}

\* mutant: every existing group matches, whatever the score
MatchingGroups_All(gs, transaction, th) == DOMAIN gs

\* mutant: the dict of the earlier call is used again
FreshDict_Kept(old) == old

\* lines 114 and 170: each call starts from a dict of its own
FreshDict(old) == <<>>

\* the groups whose representative scores at least th against the record
MatchingGroups(gs, transaction, th) ==
    {i \in DOMAIN gs : Similarity(transaction.merchant, gs[i].key) >= th}

\* mutant: the best-scoring group instead of the first one
FirstMatch_Best(gs, transaction, th) ==
    LET ms == MatchingGroups(gs, transaction, th)
        best == {i \in ms : \A k \in ms :
                    Similarity(transaction.merchant, gs[i].key)
                        >= Similarity(transaction.merchant, gs[k].key)}
    IN  IF ms = {} THEN 0 ELSE CHOOSE i \in best : \A k \in best : i <= k

\* mutant: no break, so the last matching group keeps the record
FirstMatch_Last(gs, transaction, th) ==
    LET ms == MatchingGroups(gs, transaction, th)
    IN  IF ms = {} THEN 0 ELSE CHOOSE i \in ms : \A k \in ms : i >= k

\* mutant: the record goes to the first group of the dict once any group matches
FirstMatch_Head(gs, transaction, th) ==
    IF MatchingGroups(gs, transaction, th) = {} THEN 0 ELSE 1

\* the inner for loop: the first group, in key order, that matches; 0 when none
FirstMatch(gs, transaction, th) ==
    LET ms == MatchingGroups(gs, transaction, th)
    IN  IF ms = {} THEN 0 ELSE CHOOSE i \in ms : \A k \in ms : i <= k

\* mutant: no group is opened while the mapping is empty
GroupOne_NoFirstGroup(gs, transaction, th) ==
    LET m == FirstMatch(gs, transaction, th)
    IN  IF m # 0
        THEN [gs EXCEPT ![m].members = Append(@, transaction)]
        ELSE IF gs = <<>> THEN gs ELSE DictSet(gs, transaction.merchant, <<transaction>>)

\* mutant: `matched` is never set, so line 149 runs for every record
GroupOne_AlsoNew(gs, transaction, th) ==
    LET m == FirstMatch(gs, transaction, th)
        joined == IF m # 0
                  THEN [gs EXCEPT ![m].members = Append(@, transaction)]
                  ELSE gs
    IN  DictSet(joined, transaction.merchant, <<transaction>>)

\* mutant: insert(0, transaction) instead of append(transaction)
GroupOne_Prepend(gs, transaction, th) ==
    LET m == FirstMatch(gs, transaction, th)
    IN  IF m # 0
        THEN [gs EXCEPT ![m].members = <<transaction>> \o @]
        ELSE DictSet(gs, transaction.merchant, <<transaction>>)

\* one iteration of the outer for loop
GroupOne(gs, transaction, th) ==
    LET m == FirstMatch(gs, transaction, th)
    IN  IF m # 0
        THEN [gs EXCEPT ![m].members = Append(@, transaction)]
        ELSE DictSet(gs, transaction.merchant, <<transaction>>)

\* the whole function, as a fold over the input
RECURSIVE GroupFrom(_, _, _, _)
GroupFrom(gs, txs, i, th) ==
    IF i > Len(txs) THEN gs ELSE GroupFrom(GroupOne(gs, txs[i], th), txs, i + 1, th)

group_similar_transactions(txs, th) == GroupFrom(<<>>, txs, 1, th)

RIdle ==
    /\ grouped_transactions = <<>>
    /\ min_occurrences = 0
    /\ max_days_between = 0
    /\ amount_variance_threshold = [num |-> 0, den |-> 1]
    /\ recurring = <<>>
    /\ mi = 0
    /\ sorted_transactions = <<>>
    /\ ti = 0
    /\ amount_groups = <<>>
    /\ ci = 0
    /\ rpc = "idle"

HIdle ==
    /\ run = 1
    /\ first_groups = <<>>
    /\ first_recurring = <<>>

LIdle ==
    /\ known_merchants = <<>>
    /\ cache = <<>>
    /\ last_request_time = 0
    /\ clock = 0
    /\ requests = <<>>
    /\ calls = <<>>

PIdle ==
    /\ file_rows = <<>>
    /\ credit_card = <<>>
    /\ csv_transactions = <<>>
    /\ ri = 0
    /\ ppc = "idle"

MainIdle == [pc |-> "idle", item |-> 0, amount |-> 0, loaded |-> 0]

AIdle ==
    /\ tree = <<>>
    /\ total_savings = 0
    /\ savings_var = 0
    /\ recurring_transactions = <<>>
    /\ threads = <<>>
    /\ main = MainIdle
    /\ removed = {}

XIdle == HIdle /\ LIdle /\ PIdle /\ AIdle

NIdle ==
    /\ name = <<>>
    /\ normalized = <<>>
    /\ npc = "idle"

GIdle ==
    /\ transactions = <<>>
    /\ similarity_threshold = 0
    /\ groups = <<>>
    /\ gi = 0
    /\ gpc = "idle"

\* every input of at most MaxTx records; grouping reads the merchant text only
GroupInput(n, f) == [i \in 1..n |-> Transaction(i, 0, f[i], 1000)]

Init ==
    /\ \E n \in 0..MaxTx : \E f \in [1..n -> MerchantPool] :
          transactions = GroupInput(n, f)
    /\ similarity_threshold \in Thresholds
    /\ groups = <<>>
    /\ gi = 0
    /\ gpc = "loop"
    /\ NIdle
    /\ RIdle
    /\ XIdle

GroupStep ==
    /\ gpc = "loop"
    /\ gi < Len(transactions)
    /\ groups' = GroupOne(groups, transactions[gi + 1], similarity_threshold)
    /\ gi' = gi + 1
    /\ UNCHANGED <<transactions, similarity_threshold, gpc, nvars, rvars, xvars>>

GroupReturn ==
    /\ gpc = "loop"
    /\ gi = Len(transactions)
    /\ gpc' = "done"
    /\ UNCHANGED <<transactions, similarity_threshold, groups, gi, nvars, rvars, xvars>>

Next == GroupStep \/ GroupReturn

Spec == Init /\ [][Next]_vars

(***************************************************************************)
(* normalize_merchant on its own (specification NormSpec).                 *)
(***************************************************************************)
NormAlphabet == {"a", "t", "A", "M", "e", "m", " ", "#", "1", "."}

NormInit ==
    /\ \E n \in 0..MaxNameLen : name \in [1..n -> NormAlphabet]
    /\ normalized = <<>>
    /\ npc = "call"
    /\ GIdle
    /\ RIdle
    /\ XIdle

NormalizeCall ==
    /\ npc = "call"
    /\ normalized' = normalize_merchant(name)
    /\ npc' = "done"
    /\ UNCHANGED <<name, gvars, rvars, xvars>>

NormNext == NormalizeCall

NormSpec == NormInit /\ [][NormNext]_vars

(***************************************************************************)
(* identify_recurring_transactions (specification RecSpec).                *)
(***************************************************************************)
DefaultMinOccurrences == 2
DefaultMaxDaysBetween == 35
DefaultVariancePercent == 10

\* sorted(transactions, key=lambda t: t.date): stable
RECURSIVE InsertByDate(_, _)
InsertByDate(sorted, t) ==
    IF sorted = <<>> THEN <<t>>
    ELSE IF sorted[Len(sorted)].date <= t.date THEN Append(sorted, t)
         ELSE Append(InsertByDate(SubSeq(sorted, 1, Len(sorted) - 1), t), sorted[Len(sorted)])

RECURSIVE SortFrom(_, _, _)
SortFrom(sorted, txs, i) ==
    IF i > Len(txs) THEN sorted ELSE SortFrom(InsertByDate(sorted, txs[i]), txs, i + 1)

\* mutant: the records are clustered in the order of the group
SortByDate_Unsorted(txs) == txs

SortByDate(txs) == SortFrom(<<>>, txs, 1)

\* mutant: transactions.sort(key=...) in place of sorted(transactions, key=...)
ArgumentAfterSorted_InPlace(txs) == SortByDate(txs)

\* the list handed to sorted() of line 177, after the call: sorted() builds a
\* new list and leaves its argument as it was
ArgumentAfterSorted(txs) == txs

Abs(x) == IF x < 0 THEN 0 - x ELSE x

\* abs(amount - base_amount) / base_amount <= amount_variance_threshold, in exact
\* arithmetic; a zero base raises ZeroDivisionError, which the loop passes over
WithinVariance(amount, base_amount, v) ==
    /\ base_amount # 0
    /\ base_amount > 0 => Abs(amount - base_amount) * v.den <= v.num * base_amount
    /\ base_amount < 0 => Abs(amount - base_amount) * v.den >= v.num * base_amount

\* mutant: the zero-amount test of line 182 left out
ClusterOne_NoZeroSkip(ags, trans, v) ==
    LET ms == {i \in DOMAIN ags : WithinVariance(trans.amount, ags[i].key, v)}
    IN  IF ms # {}
        THEN [ags EXCEPT ![CHOOSE i \in ms : \A k \in ms : i <= k].members = Append(@, trans)]
        ELSE DictSet(ags, trans.amount, <<trans>>)

\* mutant: the cluster is re-keyed by the amount of the record it takes in
ClusterOne_Rekey(ags, trans, v) ==
    IF trans.amount = 0 THEN ags
    ELSE LET ms == {i \in DOMAIN ags : WithinVariance(trans.amount, ags[i].key, v)}
         IN  IF ms # {}
             THEN [ags EXCEPT ![CHOOSE i \in ms : \A k \in ms : i <= k]
                                    = [key |-> trans.amount, members |-> Append(@.members, trans)]]
             ELSE DictSet(ags, trans.amount, <<trans>>)

\* one iteration of the clustering loop
ClusterOne(ags, trans, v) ==
    IF trans.amount = 0 THEN ags
    ELSE LET ms == {i \in DOMAIN ags : WithinVariance(trans.amount, ags[i].key, v)}
         IN  IF ms # {}
             THEN [ags EXCEPT ![CHOOSE i \in ms : \A k \in ms : i <= k].members
                                    = Append(@, trans)]
             ELSE DictSet(ags, trans.amount, <<trans>>)

\* lines 177-197 for one group, as a fold: the amount clusters of its records
RECURSIVE ClusterFrom(_, _, _, _)
ClusterFrom(ags, sorted, i, v) ==
    IF i > Len(sorted) THEN ags
    ELSE ClusterFrom(ClusterOne(ags, sorted[i], v), sorted, i + 1, v)

AmountClusters(txs, v) == ClusterFrom(<<>>, SortByDate(txs), 1, v)

\* the day-gaps between neighbours
Gaps(similar) == [i \in 1..(Len(similar) - 1) |-> similar[i + 1].date - similar[i].date]

\* mutant: a gap of no days is not kept
Intervals_Positive(similar, maxd) ==
    LET Short(d) == 0 < d /\ d <= maxd
    IN  SelectSeq(Gaps(similar), Short)

\* the list `intervals`: the gaps of at most maxd days, in order
Intervals(similar, maxd) ==
    LET Short(d) == d <= maxd
    IN  SelectSeq(Gaps(similar), Short)

SeqMax(s) == CHOOSE x \in Range(s) : \A y \in Range(s) : x >= y

\* mutant: one over-long gap disqualifies the cluster
Qualifies_AllGaps(similar, mino, maxd) ==
    /\ Len(similar) >= mino
    /\ Intervals(similar, maxd) # <<>>
    /\ Len(Intervals(similar, maxd)) = Len(similar) - 1
    /\ Len(Intervals(similar, maxd)) >= mino - 1

\* the tests that lead to line 219
Qualifies(similar, mino, maxd) ==
    /\ Len(similar) >= mino
    /\ LET intervals == Intervals(similar, maxd)
       IN  /\ intervals # <<>>
           /\ Len(intervals) >= mino - 1
           /\ SeqMax(intervals) <= maxd
    /\ \E i \in DOMAIN similar : similar[i].amount # 0

\* sum(...) over a list of amounts
RECURSIVE SumFrom(_, _)
SumFrom(amounts, i) ==
    IF i > Len(amounts) THEN 0 ELSE amounts[i] + SumFrom(amounts, i + 1)

\* mutant: the amount of the first record instead of the average
monthly_cost_First(txs) ==
    [num |-> txs[1].amount, den |-> 1]

\* the monthly cost the results table shows for an entry: the quotient
\* sum / len, kept as a fraction of cents
monthly_cost(txs) ==
    [num |-> SumFrom([i \in DOMAIN txs |-> txs[i].amount], 1),
     den |-> Len(txs)]

\* lines 216-218: the average of the non-zero amounts of a qualifying cluster
avg_amount(similar) ==
    LET NonZero(a) == a # 0
        valid_amounts == SelectSeq([i \in DOMAIN similar |-> similar[i].amount], NonZero)
    IN  [num |-> SumFrom(valid_amounts, 1), den |-> Len(valid_amounts)]

\* the members of s at the positions of keep, in order
RECURSIVE Pick(_, _, _)
Pick(s, keep, i) ==
    IF i > Len(s) THEN <<>>
    ELSE (IF i \in keep THEN <<s[i]>> ELSE <<>>) \o Pick(s, keep, i + 1)

\* mutant: only the members next to a retained gap are stored
RecordCluster_RegularOnly(rec, merchant, similar, mino, maxd) ==
    LET near == {i \in DOMAIN similar :
                    \/ i > 1 /\ similar[i].date - similar[i - 1].date <= maxd
                    \/ i < Len(similar) /\ similar[i + 1].date - similar[i].date <= maxd}
    IN  IF Qualifies(similar, mino, maxd) /\ merchant \notin DictKeys(rec)
        THEN DictSet(rec, merchant, Pick(similar, near, 1))
        ELSE rec

\* mutant: the test of line 219 left out, so a later cluster replaces the entry
RecordCluster_LastWins(rec, merchant, similar, mino, maxd) ==
    IF Qualifies(similar, mino, maxd)
    THEN DictSet(rec, merchant, similar)
    ELSE rec

\* one iteration of the loop over amount_groups
RecordCluster(rec, merchant, similar, mino, maxd) ==
    IF Qualifies(similar, mino, maxd) /\ merchant \notin DictKeys(rec)
    THEN DictSet(rec, merchant, similar)
    ELSE rec

\* the (date, amount) pairs of the input records: one price on three days, a
\* second price on two, a price within the variance of the first, and a zero
\* amount
RecordPool ==
    { <<0, 1000>>, <<30, 1000>>, <<90, 1000>>, <<0, 3000>>, <<30, 3000>>,
      <<30, 1050>>, <<30, 0>> }

MerchantNames == << <<"a","b">>, <<"b","a">> >>

\* a mapping of n records: the first k under one merchant, the rest under another
GroupedInput(n, k, f) ==
    LET Member(m, i) == Transaction(i, f[i][1], MerchantNames[m], f[i][2])
        first == [key |-> MerchantNames[1],
                  members |-> [i \in 1..k |-> Member(1, i)]]
        second == [key |-> MerchantNames[2],
                   members |-> [i \in 1..(n - k) |-> Member(2, k + i)]]
    IN  IF n = 0 THEN <<>> ELSE IF k = n THEN <<first>> ELSE <<first, second>>

\* every mapping of one or two non-empty groups holding at most MaxGroupTx
\* records between them, and the empty mapping
RecInit ==
    /\ \E n \in 0..MaxGroupTx : \E k \in (IF n = 0 THEN {0} ELSE 1..n) :
          \E f \in [1..n -> RecordPool] :
              grouped_transactions = GroupedInput(n, k, f)
    /\ min_occurrences \in {DefaultMinOccurrences, DefaultMinOccurrences + 1}
    /\ max_days_between = DefaultMaxDaysBetween
    /\ amount_variance_threshold = [num |-> DefaultVariancePercent, den |-> 100]
    /\ recurring = <<>>
    /\ mi = 0
    /\ sorted_transactions = <<>>
    /\ ti = 0
    /\ amount_groups = <<>>
    /\ ci = 0
    /\ rpc = "merchant"
    /\ GIdle
    /\ NIdle
    /\ XIdle

rargs == <<grouped_transactions, min_occurrences, max_days_between,
           amount_variance_threshold>>

\* lines 172-174: a group with too few records is passed over
SkipMerchant ==
    /\ rpc = "merchant"
    /\ mi < Len(grouped_transactions)
    /\ Len(grouped_transactions[mi + 1].members) < min_occurrences
    /\ mi' = mi + 1
    /\ UNCHANGED <<rargs, recurring, sorted_transactions, ti, amount_groups, ci, rpc,
                   gvars, nvars, xvars>>

\* lines 177-180
StartMerchant ==
    /\ rpc = "merchant"
    /\ mi < Len(grouped_transactions)
    /\ Len(grouped_transactions[mi + 1].members) >= min_occurrences
    /\ mi' = mi + 1
    /\ sorted_transactions' = SortByDate(grouped_transactions[mi + 1].members)
    /\ grouped_transactions' =
          [grouped_transactions EXCEPT ![mi + 1].members = ArgumentAfterSorted(@)]
    /\ amount_groups' = <<>>
    /\ ti' = 0
    /\ rpc' = "cluster"
    /\ UNCHANGED <<min_occurrences, max_days_between, amount_variance_threshold,
                   recurring, ci, gvars, nvars, xvars>>

\* lines 181-197
ClusterStep ==
    /\ rpc = "cluster"
    /\ ti < Len(sorted_transactions)
    /\ amount_groups' = ClusterOne(amount_groups, sorted_transactions[ti + 1],
                                   amount_variance_threshold)
    /\ ti' = ti + 1
    /\ UNCHANGED <<rargs, recurring, mi, sorted_transactions, ci, rpc, gvars, nvars, xvars>>

ClusterDone ==
    /\ rpc = "cluster"
    /\ ti = Len(sorted_transactions)
    /\ ci' = 0
    /\ rpc' = "check"
    /\ UNCHANGED <<rargs, recurring, mi, sorted_transactions, ti, amount_groups,
                   gvars, nvars, xvars>>

\* lines 200-224
CheckCluster ==
    /\ rpc = "check"
    /\ ci < Len(amount_groups)
    /\ recurring' = RecordCluster(recurring, grouped_transactions[mi].key,
                                  amount_groups[ci + 1].members,
                                  min_occurrences, max_days_between)
    /\ ci' = ci + 1
    /\ UNCHANGED <<rargs, mi, sorted_transactions, ti, amount_groups, rpc, gvars, nvars, xvars>>

CheckDone ==
    /\ rpc = "check"
    /\ ci = Len(amount_groups)
    /\ rpc' = "merchant"
    /\ UNCHANGED <<rargs, recurring, mi, sorted_transactions, ti, amount_groups, ci,
                   gvars, nvars, xvars>>

\* line 226
RecReturn ==
    /\ rpc = "merchant"
    /\ mi = Len(grouped_transactions)
    /\ rpc' = "done"
    /\ UNCHANGED <<rargs, recurring, mi, sorted_transactions, ti, amount_groups, ci,
                   gvars, nvars, xvars>>

RecNext ==
    \/ SkipMerchant
    \/ StartMerchant
    \/ ClusterStep
    \/ ClusterDone
    \/ CheckCluster
    \/ CheckDone
    \/ RecReturn

RecSpec == RecInit /\ [][RecNext]_vars

(***************************************************************************)
(* identify_recurring_transactions on one merchant with charges of two     *)
(* prices in turn (specification AltSpec).                                 *)
(***************************************************************************)
\* (date, amount) pairs: 9.99 and 29.99 in turn on days 0, 20, 30, 40 and on
\* days 0, 20, 40, 60, and two amounts of which the second is within the
\* variance of both 9.99 and the first
AlternatingPool ==
    { <<0, 999>>, <<20, 2999>>, <<30, 999>>, <<40, 2999>>, <<40, 999>>, <<60, 2999>>,
      <<20, 1150>>, <<30, 1090>> }

AltInit ==
    /\ \E n \in 0..MaxGroupTx : \E f \in [1..n -> AlternatingPool] :
          grouped_transactions = GroupedInput(n, n, f)
    /\ min_occurrences = DefaultMinOccurrences
    /\ max_days_between = DefaultMaxDaysBetween
    /\ amount_variance_threshold = [num |-> DefaultVariancePercent, den |-> 100]
    /\ recurring = <<>>
    /\ mi = 0
    /\ sorted_transactions = <<>>
    /\ ti = 0
    /\ amount_groups = <<>>
    /\ ci = 0
    /\ rpc = "merchant"
    /\ GIdle
    /\ NIdle
    /\ XIdle

AltSpec == AltInit /\ [][RecNext]_vars

(***************************************************************************)
(* identify_recurring_transactions on records that include refunds         *)
(* (specification NegSpec).                                                *)
(***************************************************************************)
\* (date, amount) pairs: a charge and a refund on two days a month apart, a
\* larger refund and a zero amount
SignedPool ==
    { <<0, 1000>>, <<30, 1000>>, <<0, -1000>>, <<30, -1000>>, <<30, -3000>>, <<30, 0>> }

NegInit ==
    /\ \E n \in 0..MaxGroupTx : \E f \in [1..n -> SignedPool] :
          grouped_transactions = GroupedInput(n, n, f)
    /\ min_occurrences = DefaultMinOccurrences
    /\ max_days_between = DefaultMaxDaysBetween
    /\ amount_variance_threshold = [num |-> DefaultVariancePercent, den |-> 100]
    /\ recurring = <<>>
    /\ mi = 0
    /\ sorted_transactions = <<>>
    /\ ti = 0
    /\ amount_groups = <<>>
    /\ ci = 0
    /\ rpc = "merchant"
    /\ GIdle
    /\ NIdle
    /\ XIdle

NegSpec == NegInit /\ [][RecNext]_vars

(***************************************************************************)
(* identify_recurring_transactions on records that lie months apart        *)
(* (specification GapSpec).                                                *)
(***************************************************************************)
\* (date, amount) pairs: one price on four days, the later ones two months
\* apart, and a second price
SparsePool ==
    { <<0, 1000>>, <<30, 1000>>, <<90, 1000>>, <<150, 1000>>, <<90, 3000>> }

GapInit ==
    /\ \E n \in 0..MaxSparseTx : \E k \in (IF n = 0 THEN {0} ELSE 1..n) :
          \E f \in [1..n -> SparsePool] :
              grouped_transactions = GroupedInput(n, k, f)
    /\ min_occurrences = DefaultMinOccurrences
    /\ max_days_between = DefaultMaxDaysBetween
    /\ amount_variance_threshold = [num |-> DefaultVariancePercent, den |-> 100]
    /\ recurring = <<>>
    /\ mi = 0
    /\ sorted_transactions = <<>>
    /\ ti = 0
    /\ amount_groups = <<>>
    /\ ci = 0
    /\ rpc = "merchant"
    /\ GIdle
    /\ NIdle
    /\ XIdle

GapSpec == GapInit /\ [][RecNext]_vars

(***************************************************************************)
(* identify_recurring_transactions on records that share a date            *)
(* (specification SameDaySpec).                                            *)
(***************************************************************************)
\* (date, amount) pairs: three prices, each within the variance of the
\* next, and a zero amount, on two days three months apart
SameDayPool ==
    { <<0, 1150>>, <<0, 1000>>, <<90, 1050>>, <<90, 1000>>, <<90, 0>> }

SameDayInit ==
    /\ \E n \in 0..MaxGroupTx : \E k \in (IF n = 0 THEN {0} ELSE 1..n) :
          \E f \in [1..n -> SameDayPool] :
              grouped_transactions = GroupedInput(n, k, f)
    /\ min_occurrences = DefaultMinOccurrences
    /\ max_days_between = DefaultMaxDaysBetween
    /\ amount_variance_threshold = [num |-> DefaultVariancePercent, den |-> 100]
    /\ recurring = <<>>
    /\ mi = 0
    /\ sorted_transactions = <<>>
    /\ ti = 0
    /\ amount_groups = <<>>
    /\ ci = 0
    /\ rpc = "merchant"
    /\ GIdle
    /\ NIdle
    /\ XIdle

SameDaySpec == SameDayInit /\ [][RecNext]_vars

(***************************************************************************)
(* The sample statement: grouping, then recurrence detection, both with    *)
(* their default parameters (specification ScenarioSpec).                  *)
(***************************************************************************)
\* days of 2024 before each month
DaysBeforeMonth == <<0, 31, 60, 91, 121, 152, 182, 213, 244, 274, 305, 335>>

\* datetime.strptime(..., '%m/%d/%Y') of a day of 2024, as a day number
Date2024(month, day) == DaysBeforeMonth[month] + day

\* the six records of the sample, in the order of the statement
ScenarioRecords ==
    << Transaction(1, Date2024(1, 15), Netflix123, 1999),
       Transaction(2, Date2024(2, 15), NetflixSubscription, 1999),
       Transaction(3, Date2024(1, 20), AmazonPrime123, 1499),
       Transaction(4, Date2024(2, 20), AmazonPrimeMem, 1499),
       Transaction(5, Date2024(3, 20), AmznPrime, 1499),
       Transaction(6, Date2024(1, 25), GroceryStore, 5247) >>

\* the sample, or the sample with some of its lines left out
ScenarioInit ==
    /\ \E S \in SUBSET (DOMAIN ScenarioRecords) :
          LET Kept(t) == t.id \in S
          IN  transactions = SelectSeq(ScenarioRecords, Kept)
    /\ similarity_threshold = DefaultSimilarityThreshold
    /\ groups = <<>>
    /\ gi = 0
    /\ gpc = "loop"
    /\ NIdle
    /\ RIdle
    /\ XIdle

\* recurring = identify_recurring_transactions(grouped)
CallIdentify ==
    /\ gpc = "done"
    /\ rpc = "idle"
    /\ grouped_transactions' = groups
    /\ min_occurrences' = DefaultMinOccurrences
    /\ max_days_between' = DefaultMaxDaysBetween
    /\ amount_variance_threshold' = [num |-> DefaultVariancePercent, den |-> 100]
    /\ recurring' = FreshDict(recurring)
    /\ mi' = 0
    /\ sorted_transactions' = <<>>
    /\ ti' = 0
    /\ amount_groups' = <<>>
    /\ ci' = 0
    /\ rpc' = "merchant"
    /\ UNCHANGED <<gvars, nvars, xvars>>

ScenarioNext ==
    \/ GroupStep
    \/ GroupReturn
    \/ CallIdentify
    \/ SkipMerchant
    \/ StartMerchant
    \/ ClusterStep
    \/ ClusterDone
    \/ CheckCluster
    \/ CheckDone
    \/ RecReturn

ScenarioSpec == ScenarioInit /\ [][ScenarioNext]_vars

(***************************************************************************)
(* The same input analysed again by the same caller (specification         *)
(* RepeatSpec).                                                            *)
(***************************************************************************)
\* at most MaxTx records of the sample, in any order
RepeatInit ==
    /\ \E n \in 0..MaxTx : \E f \in [1..n -> DOMAIN ScenarioRecords] :
          /\ \A i, j \in 1..n : f[i] = f[j] => i = j
          /\ transactions = [i \in 1..n |-> ScenarioRecords[f[i]]]
    /\ similarity_threshold = DefaultSimilarityThreshold
    /\ groups = <<>>
    /\ gi = 0
    /\ gpc = "loop"
    /\ NIdle
    /\ RIdle
    /\ XIdle

\* grouped = group_similar_transactions(all_transactions), once more
CallAgain ==
    /\ rpc = "done"
    /\ run < MaxRuns
    /\ run' = run + 1
    /\ first_groups' = IF run = 1 THEN groups ELSE first_groups
    /\ first_recurring' = IF run = 1 THEN recurring ELSE first_recurring
    /\ groups' = FreshDict(groups)
    /\ gi' = 0
    /\ gpc' = "loop"
    /\ rpc' = "idle"
    /\ UNCHANGED <<transactions, similarity_threshold, rargs, recurring, mi,
                   sorted_transactions, ti, amount_groups, ci, nvars, yvars>>

RepeatNext == ScenarioNext \/ CallAgain

RepeatSpec == RepeatInit /\ [][RepeatNext]_vars

(***************************************************************************)
(* LinkFinder (src/services/link_finder.py, specification LinkSpec): one   *)
(* step per call of get_cancellation_link or add_merchant, and the passing *)
(* of time between calls.  A link is a record [kind, of]; None and the     *)
(* TypeError that escapes a call are links of those kinds.                 *)
(***************************************************************************)
min_request_interval == 1

Hulu == <<"H","u","l","u">>
HuluLLC == <<"H","u","l","u"," ","L","L","C">>
AplPayHulu == <<"A","p","l","P","a","y"," ","H","u","l","u">>
Roku == <<"R","o","k","u">>
Zoom == <<"Z","o","o","m">>

\* the texts looked up
LinkQueries == {<<>>, Hulu, HuluLLC, AplPayHulu, Roku}

\* the merchants add_merchant is called with
LinkAdditions == {Hulu, Zoom}

\* what requests.get does: the page has a relevant result (one of two
\* addresses), the page has none or the status is not 200, or it raises
Responses == {"result", "other result", "fallback", "raises"}

Link(kind, of) == [kind |-> kind, of |-> of]

\* re.sub(r'^(AplPay|APLPAY)\s+', '', merchant, IGNORECASE)
StripPrefix(s) ==
    IF MatchCI(s, 1, <<"a","p","l","p","a","y">>) /\ Len(s) >= 7 /\ IsSpace(s[7])
    THEN SubSeq(s, SkipSpace(s, 7), Len(s))
    ELSE s

LinkSuffixLiterals ==
    { <<"i","n","c",".">>, <<"l","l","c">>, <<"l","t","d",".">>,
      <<"c","o","r","p",".">> }

\* (Inc\.|LLC|Ltd\.|Corp\.|#\d+) matches at s[j..], ignoring case
LinkSuffixAt(s, j) ==
    \/ \E lit \in LinkSuffixLiterals : MatchCI(s, j, lit)
    \/ j + 1 <= Len(s) /\ s[j] = "#" /\ IsDigit(s[j + 1])

\* re.sub(r'\s*(Inc\.|LLC|Ltd\.|Corp\.|#\d+).*$', '', merchant, IGNORECASE)
StripLinkSuffix(s) ==
    LET starts == {i \in 1..Len(s) : LinkSuffixAt(s, SkipSpace(s, i))}
    IN  IF starts = {} THEN s
        ELSE SubSeq(s, 1, (CHOOSE i \in starts : \A k \in starts : i <= k) - 1)

RECURSIVE RStrip(_)
RStrip(s) ==
    IF s # <<>> /\ IsSpace(s[Len(s)]) THEN RStrip(SubSeq(s, 1, Len(s) - 1)) ELSE s

\* str.strip()
Strip(s) == RStrip(SubSeq(s, SkipSpace(s, 1), Len(s)))

\* LinkFinder._normalize_merchant
link_normalize_merchant(merchant) ==
    Strip(StripStateCodes(StripLocation(StripLinkSuffix(StripPrefix(merchant))), 1))

\* utils.full_process of thefuzz: every non-alphanumeric character becomes
\* a space, then lower case, then strip
full_process(s) ==
    Strip([i \in DOMAIN s |-> IF IsAlnum(s[i]) THEN ToLower(s[i]) ELSE " "])

\* fuzz.WRatio, the scorer of process.extractOne, on one-word texts whose
\* lengths differ by less than half: 0 when a processed text is empty;
\* otherwise the greatest of ratio, 0.95 * token_sort_ratio and
\* 0.95 * token_set_ratio, and on one-word texts both token scores equal
\* ratio.  Every text of LinkQueries and LinkAdditions is of that kind once
\* normalized.
WRatio(s1, s2) ==
    LET p1 == full_process(s1)
        p2 == full_process(s2)
    IN  IF p1 = <<>> \/ p2 = <<>> THEN 0 ELSE ratio(p1, p2)

\* the texts that become keys of known_merchants
LinkKnown == {Roku} \cup LinkAdditions

\* the function f on S with every value computed
RECURSIVE Explicit(_, _)
Explicit(f, S) ==
    IF S = {} THEN <<>>
    ELSE LET x == CHOOSE x \in S : TRUE
         IN  (x :> f[x]) @@ Explicit(f, S \ {x})

\* link_normalize_merchant and WRatio on the texts of the model, computed once
LinkKey == Explicit([m \in LinkQueries |-> link_normalize_merchant(m)], LinkQueries)

LinkScore ==
    LET pairs == {LinkKey[m] : m \in LinkQueries} \X LinkKnown
    IN  Explicit([p \in pairs |-> WRatio(p[1], p[2])], pairs)

Score(query, choice) == LinkScore[<<query, choice>>]

\* process.extractOne(query, d.keys()): the first choice of the greatest
\* score; None when there is no choice
extractOne(query, d) ==
    IF d = <<>> THEN [match |-> <<>>, score |-> -1, none |-> TRUE]
    ELSE LET i == CHOOSE i \in DOMAIN d :
                     /\ \A k \in DOMAIN d : Score(query, d[k].key) <= Score(query, d[i].key)
                     /\ \A k \in 1..(i - 1) : Score(query, d[k].key) < Score(query, d[i].key)
         IN  [match |-> d[i].key, score |-> Score(query, d[i].key), none |-> FALSE]

DefaultLinkThreshold == 80

\* the state a call leaves and the link it returns
Outcome(result, c, lrt, now, sent) ==
    [result |-> result, cache |-> c, last_request_time |-> lrt, clock |-> now,
     sent |-> sent]

\* mutant: the cache is never consulted
CacheHit_Never(c, merchant) == FALSE

\* merchant in self.cache
CacheHit(c, merchant) == merchant \in DictKeys(c)

\* self.last_request_time after the try block: line 75 runs only when
\* requests.get returned
TimeOfLastRequest(lrt, sent_at, done_at, raised) ==
    IF raised THEN lrt ELSE done_at

\* LinkFinder._search_google(merchant), the request answered by `response`
\* after `took` seconds
search_google(merchant, response, took) ==
    IF CacheHit(cache, merchant)
    THEN Outcome(DictGet(cache, merchant), cache, last_request_time, clock, <<>>)
    ELSE LET sent_at == IF clock - last_request_time < min_request_interval
                        THEN clock + min_request_interval
                        ELSE clock
             done_at == sent_at + took
             raised == response = "raises"
             url == Link(response, merchant)
             lrt == TimeOfLastRequest(last_request_time, sent_at, done_at, raised)
         IN  IF raised
             THEN Outcome(Link("None", <<>>), cache, lrt, done_at,
                          << [at |-> sent_at, raised |-> TRUE] >>)
             ELSE Outcome(url, DictSet(cache, merchant, url), lrt, done_at,
                          << [at |-> sent_at, raised |-> FALSE] >>)

\* LinkFinder.get_cancellation_link(merchant), similarity_threshold = 80
get_cancellation_link(merchant, response, took) ==
    IF merchant = <<>>
    THEN Outcome(Link("None", <<>>), cache, last_request_time, clock, <<>>)
    ELSE LET normalized_merchant == LinkKey[merchant]
             best == extractOne(normalized_merchant, known_merchants)
         IN  IF best.none
             THEN Outcome(Link("TypeError", <<>>), cache, last_request_time, clock, <<>>)
             ELSE IF best.score >= DefaultLinkThreshold
                  THEN Outcome(DictGet(known_merchants, best.match), cache,
                               last_request_time, clock, <<>>)
                  ELSE search_google(normalized_merchant, response, took)

\* the call reached _search_google
Searched(merchant) ==
    /\ merchant # <<>>
    /\ known_merchants # <<>>
    /\ extractOne(LinkKey[merchant], known_merchants).score < DefaultLinkThreshold

\* known_merchants.json is missing, or holds one merchant
LinkInit ==
    /\ known_merchants \in {<<>>, << [key |-> Roku, members |-> Link("known", Roku)] >>}
    /\ cache = <<>>
    /\ last_request_time = 0
    /\ clock = min_request_interval
    /\ requests = <<>>
    /\ calls = <<>>
    /\ GIdle
    /\ NIdle
    /\ RIdle
    /\ HIdle
    /\ PIdle
    /\ AIdle

GetCancellationLink ==
    \E merchant \in LinkQueries, response \in Responses, took \in 0..1 :
        LET o == get_cancellation_link(merchant, response, took)
        IN  /\ Len(calls) < MaxCalls
            /\ o.clock <= MaxClock
            /\ cache' = o.cache
            /\ last_request_time' = o.last_request_time
            /\ clock' = o.clock
            /\ requests' = requests \o o.sent
            /\ calls' = Append(calls, [merchant |-> merchant,
                                       result |-> o.result,
                                       sent |-> Len(o.sent),
                                       searched |-> Searched(merchant),
                                       keys |-> DictKeys(known_merchants)])
            /\ UNCHANGED <<known_merchants, gvars, nvars, rvars, hvars, pvars, avars>>

\* self.known_merchants[merchant] = link
AddMerchant ==
    \E merchant \in LinkAdditions :
        /\ known_merchants' = DictSet(known_merchants, merchant, Link("known", merchant))
        /\ known_merchants' # known_merchants
        /\ UNCHANGED <<cache, last_request_time, clock, requests, calls,
                       gvars, nvars, rvars, hvars, pvars, avars>>

\* time passes between two calls
Elapse ==
    /\ clock < MaxClock
    /\ Len(calls) < MaxCalls
    /\ clock' = clock + 1
    /\ UNCHANGED <<known_merchants, cache, last_request_time, requests, calls,
                   gvars, nvars, rvars, hvars, pvars, avars>>

LinkNext == GetCancellationLink \/ AddMerchant \/ Elapse

LinkSpec == LinkInit /\ [][LinkNext]_vars

(***************************************************************************)
(* CSVParser.parse_csv on a file of the AMEX format                        *)
(* (src/services/csv_parser.py, specification CsvSpec): one row of the     *)
(* file per step.  A field of a row is [valid, value]: `valid` says        *)
(* whether strptime, or float, accepts the text, `value` is what it yields.*)
(***************************************************************************)
PaymentReceived ==
    <<"P","A","Y","M","E","N","T"," ","R","E","C","E","I","V","E","D"," ","-",
      " ","T","H","A","N","K"," ","Y","O","U">>
AnnualFee == <<"A","n","n","u","a","l"," ","F","e","e">>
AmazonPrime == <<"A","m","a","z","o","n"," ","P","r","i","m","e"," ">>
AmexTest == <<"A","m","e","x"," ","T","e","s","t">>

Descriptions == {NetflixSubscription, PaymentReceived, AnnualFee, AmazonPrime}

Field(valid, value) == [valid |-> valid, value |-> value]

\* the rows a file may hold
RowPool ==
    [Description : Descriptions,
     Date : {Field(TRUE, 15), Field(FALSE, 0)},
     Amount : {Field(TRUE, 1999), Field(TRUE, -1499), Field(FALSE, 0)}]

SkipPhrases ==
    { <<"p","a","y","m","e","n","t"," ","r","e","c","e","i","v","e","d">>,
      <<"i","n","t","e","r","e","s","t"," ","c","h","a","r","g","e">>,
      <<"a","n","n","u","a","l"," ","f","e","e">> }

\* any(skip in row['Description'].upper() for skip in [...])
Skipped(description) ==
    \E phrase \in SkipPhrases : \E i \in 1..Len(description) :
        MatchCI(description, i, phrase)

\* the fields of the dataclass Transaction
TransactionFields == {"date", "merchant", "amount", "description"}

\* Transaction.__init__ takes these keyword arguments
Accepts(keywords) == keywords \subseteq TransactionFields

\* what a call yields: nothing, one Transaction, or a TypeError
Parsed(raised, value) == [raised |-> raised, value |-> value]

\* CSVParser._parse_amex_row(row, credit_card)
parse_amex_row(row, card) ==
    IF Skipped(row.Description) THEN Parsed(FALSE, <<>>)
    ELSE IF ~row.Date.valid \/ ~row.Amount.valid THEN Parsed(FALSE, <<>>)
    ELSE LET arguments == [date |-> row.Date.value,
                           merchant |-> Strip(row.Description),
                           amount |-> Abs(row.Amount.value),
                           credit_card |-> card]
         IN  IF Accepts(DOMAIN arguments)
             THEN Parsed(FALSE, <<arguments>>)
             ELSE Parsed(TRUE, <<>>)

CsvInit ==
    /\ \E n \in 0..MaxRows : file_rows \in [1..n -> RowPool]
    /\ credit_card \in {AmexTest, Hulu}
    /\ csv_transactions = <<>>
    /\ ri = 0
    /\ ppc = "loop"
    /\ GIdle
    /\ NIdle
    /\ RIdle
    /\ HIdle
    /\ LIdle
    /\ AIdle

\* one pass of the for loop of parse_csv; a TypeError leaves through the
\* except clause of line 111, which raises it again
ParseRow ==
    /\ ppc = "loop"
    /\ ri < Len(file_rows)
    /\ LET transaction == parse_amex_row(file_rows[ri + 1], credit_card)
       IN  /\ ppc' = IF transaction.raised THEN "TypeError" ELSE "loop"
           /\ csv_transactions' = csv_transactions \o transaction.value
    /\ ri' = ri + 1
    /\ UNCHANGED <<file_rows, credit_card, gvars, nvars, rvars, hvars, lvars, avars>>

\* return transactions
ParseReturn ==
    /\ ppc = "loop"
    /\ ri = Len(file_rows)
    /\ ppc' = "returned"
    /\ UNCHANGED <<file_rows, credit_card, csv_transactions, ri,
                   gvars, nvars, rvars, hvars, lvars, avars>>

CsvNext == ParseRow \/ ParseReturn

CsvSpec == CsvInit /\ [][CsvNext]_vars

(***************************************************************************)
(* AppWindow (src/gui/app_window.py, specification AppSpec).  The GUI      *)
(* thread runs _start_analysis and _remove_item; every press of Analyze    *)
(* starts a thread that runs _analyze_statements.  A step is one access to *)
(* a field both kinds of thread use, or to the table.  Money is counted in *)
(* sixths of a cent, so that the mean of up to three amounts is exact.     *)
(***************************************************************************)
CostUnit == 6

\* the loop of lines 200-224 over the clusters of one merchant
RECURSIVE RecordFrom(_, _, _, _, _, _)
RecordFrom(rec, merchant, clusters, c, mino, maxd) ==
    IF c > Len(clusters) THEN rec
    ELSE RecordFrom(RecordCluster(rec, merchant, clusters[c].members, mino, maxd),
                    merchant, clusters, c + 1, mino, maxd)

\* the loop of lines 172-224 over the merchants
RECURSIVE IdentifyFrom(_, _, _, _, _, _)
IdentifyFrom(rec, grouped, m, mino, maxd, v) ==
    IF m > Len(grouped) THEN rec
    ELSE IF Len(grouped[m].members) < mino
         THEN IdentifyFrom(rec, grouped, m + 1, mino, maxd, v)
         ELSE IdentifyFrom(RecordFrom(rec, grouped[m].key,
                                      AmountClusters(grouped[m].members, v), 1,
                                      mino, maxd),
                           grouped, m + 1, mino, maxd, v)

\* the whole function, as a fold over the mapping
identify_recurring_transactions(grouped, mino, maxd, v) ==
    IdentifyFrom(<<>>, grouped, 1, mino, maxd, v)

\* a record as the parser means to build it, with the name of its card, or
\* as the class Transaction builds it, without one
Carded(t, present) ==
    [id |-> t.id, date |-> t.date, merchant |-> t.merchant, amount |-> t.amount,
     credit_card |-> [present |-> present, value |-> IF present THEN AmexTest ELSE <<>>]]

\* what csv_parser.parse_directory may hand to an analysis: nothing, the
\* first two lines of the sample, or the whole sample
Statements ==
    {<<>>} \cup
    UNION { { [i \in DOMAIN s |-> Carded(s[i], present)] : present \in BOOLEAN }
            : s \in {SubSeq(ScenarioRecords, 1, 2), ScenarioRecords} }

\* lines 152 and 156 with their default arguments
Analysis(all_transactions) ==
    identify_recurring_transactions(
        group_similar_transactions(all_transactions, DefaultSimilarityThreshold),
        DefaultMinOccurrences, DefaultMaxDaysBetween,
        [num |-> DefaultVariancePercent, den |-> 100])

AnalysisOf == Explicit([s \in Statements |-> Analysis(s)], Statements)

\* line 164, in sixths of a cent
MonthlyCost(txs) == (monthly_cost(txs).num * CostUnit) \div monthly_cost(txs).den

\* f"${monthly_cost:.2f}": the text of the amount rounded to whole cents
FormatCost(cost) == RoundHalfEven(cost, CostUnit)

\* float(values[2].replace('$', '').replace(',', ''))
ParseCost(text) == text * CostUnit

\* max(transactions, key=lambda t: t.date): the first of the latest records
MostRecent(txs) ==
    txs[CHOOSE i \in DOMAIN txs :
            /\ \A j \in DOMAIN txs : txs[j].date <= txs[i].date
            /\ \A j \in 1..(i - 1) : txs[j].date < txs[i].date]

\* the values of a row of the table
Row(merchant, txs) ==
    [merchant |-> merchant,
     cost |-> FormatCost(MonthlyCost(txs)),
     credit_card |-> MostRecent(txs).credit_card.value,
     times |-> Len(txs)]

\* a thread that has been started and has not run yet
NewThread ==
    [pc |-> "analyze", result |-> <<>>, items |-> <<>>, k |-> 0, loaded |-> 0]

\* s without its member at position i
Without(s, i) == SubSeq(s, 1, i - 1) \o SubSeq(s, i + 1, Len(s))

AppInit ==
    /\ AIdle
    /\ GIdle
    /\ NIdle
    /\ RIdle
    /\ HIdle
    /\ LIdle
    /\ PIdle

nonavars == <<gvars, nvars, rvars, hvars, lvars, pvars>>

\* _start_analysis with a folder chosen: the table is emptied and a thread
\* is started
StartAnalysis ==
    /\ main.pc = "idle"
    /\ Len(threads) < MaxThreads
    /\ tree' = <<>>
    /\ threads' = Append(threads, NewThread)
    /\ removed' = {}
    /\ UNCHANGED <<total_savings, savings_var, recurring_transactions, main, nonavars>>

\* lines 135-156: no transactions found and the thread returns, or the
\* result is stored in self.recurring_transactions
Analyze(t) ==
    /\ threads[t].pc = "analyze"
    /\ \E all_transactions \in Statements :
          IF all_transactions = <<>>
          THEN /\ threads' = [threads EXCEPT ![t].pc = "finished"]
               /\ UNCHANGED recurring_transactions
          ELSE /\ threads' = [threads EXCEPT ![t].pc = "reset",
                                             ![t].result = AnalysisOf[all_transactions]]
               /\ recurring_transactions' = AnalysisOf[all_transactions]
    /\ UNCHANGED <<tree, total_savings, savings_var, main, removed, nonavars>>

\* line 160
ResetTotal(t) ==
    /\ threads[t].pc = "reset"
    /\ total_savings' = 0
    /\ threads' = [threads EXCEPT ![t].pc = "iterate"]
    /\ UNCHANGED <<tree, savings_var, recurring_transactions, main, removed, nonavars>>

\* line 162: the loop takes the items of the dict the field holds now
Iterate(t) ==
    /\ threads[t].pc = "iterate"
    /\ threads' = [threads EXCEPT ![t].items = recurring_transactions,
                                  ![t].k = 0,
                                  ![t].pc = IF recurring_transactions = <<>>
                                            THEN "finish" ELSE "load"]
    /\ UNCHANGED <<tree, total_savings, savings_var, recurring_transactions, main,
                   removed, nonavars>>

\* line 165, the read of self.total_savings
LoadTotal(t) ==
    /\ threads[t].pc = "load"
    /\ threads' = [threads EXCEPT ![t].loaded = total_savings, ![t].pc = "store"]
    /\ UNCHANGED <<tree, total_savings, savings_var, recurring_transactions, main,
                   removed, nonavars>>

\* line 165, the write of self.total_savings
StoreTotal(t) ==
    /\ threads[t].pc = "store"
    /\ total_savings' = threads[t].loaded
                           + MonthlyCost(threads[t].items[threads[t].k + 1].members)
    /\ threads' = [threads EXCEPT ![t].pc = "insert"]
    /\ UNCHANGED <<tree, savings_var, recurring_transactions, main, removed, nonavars>>

\* lines 168-182: the row is added, unless the latest record has no
\* credit_card and the AttributeError ends the thread at lines 188-191
InsertRow(t) ==
    /\ threads[t].pc = "insert"
    /\ LET item == threads[t].items[threads[t].k + 1]
       IN  IF MostRecent(item.members).credit_card.present
           THEN /\ tree' = Append(tree, Row(item.key, item.members))
                /\ threads' = [threads EXCEPT
                                  ![t].k = @ + 1,
                                  ![t].pc = IF threads[t].k + 1 < Len(threads[t].items)
                                            THEN "load" ELSE "finish"]
           ELSE /\ tree' = tree
                /\ threads' = [threads EXCEPT ![t].pc = "finished"]
    /\ UNCHANGED <<total_savings, savings_var, recurring_transactions, main, removed,
                   nonavars>>

\* lines 185-186
Finish(t) ==
    /\ threads[t].pc = "finish"
    /\ savings_var' = total_savings
    /\ threads' = [threads EXCEPT ![t].pc = "finished"]
    /\ UNCHANGED <<tree, total_savings, recurring_transactions, main, removed, nonavars>>

\* _remove_item, lines 209-211 up to the read of self.total_savings
RemoveLoad ==
    /\ main.pc = "idle"
    /\ \E item \in DOMAIN tree :
          main' = [pc |-> "store", item |-> item,
                   amount |-> ParseCost(tree[item].cost), loaded |-> total_savings]
    /\ UNCHANGED <<tree, total_savings, savings_var, recurring_transactions, threads,
                   removed, nonavars>>

\* _remove_item, the write of line 211 and lines 212-213
RemoveStore ==
    /\ main.pc = "store"
    /\ total_savings' = main.loaded - main.amount
    /\ savings_var' = main.loaded - main.amount
    /\ tree' = Without(tree, main.item)
    /\ removed' = removed \cup {tree[main.item].merchant}
    /\ main' = MainIdle
    /\ UNCHANGED <<recurring_transactions, threads, nonavars>>

AppNext ==
    \/ StartAnalysis
    \/ RemoveLoad
    \/ RemoveStore
    \/ \E t \in DOMAIN threads :
          \/ Analyze(t)
          \/ ResetTotal(t)
          \/ Iterate(t)
          \/ LoadTotal(t)
          \/ StoreTotal(t)
          \/ InsertRow(t)
          \/ Finish(t)

AppSpec == AppInit /\ [][AppNext]_vars

(***************************************************************************)
(* Claims about group_similar_transactions (specification Spec).           *)
(***************************************************************************)
IsPrefix(s, t) == Len(s) <= Len(t) /\ SubSeq(t, 1, Len(s)) = s

\* the canonical key of a record
KeyOf(t) == Key(t.merchant)

GroupedIds ==
    UNION { {groups[g].members[k].id : k \in 1..Len(groups[g].members)} : g \in DOMAIN groups }

\* C1: the records are consumed in input order; a record that opened a group
\* reached the threshold against no group created before it, and the group
\* is keyed by the record's own merchant text; a record that joined a group
\* reached the threshold against it and against no group created before it,
\* whatever the later groups score.
C1_FirstMatchWins ==
    /\ GroupedIds = 1..gi
    /\ \A g \in DOMAIN groups :
          LET ms == groups[g].members
          IN  /\ groups[g].key = ms[1].merchant
              /\ \A k \in 1..Len(ms) :
                    /\ k > 1 => ms[k - 1].id < ms[k].id
                    /\ k > 1 => Similarity(ms[k].merchant, groups[g].key)
                                    >= similarity_threshold
                    /\ \A h \in 1..(g - 1) :
                          Similarity(ms[k].merchant, groups[h].key)
                              < similarity_threshold

\* a record sits in an earlier group although a group that existed when it
\* was placed scores strictly higher
C1_Witness ==
    \E g \in DOMAIN groups, h \in DOMAIN groups :
        \E k \in 2..Len(groups[g].members) :
            /\ g < h
            /\ groups[h].members[1].id < groups[g].members[k].id
            /\ Similarity(groups[g].members[k].merchant, groups[h].key)
                  > Similarity(groups[g].members[k].merchant, groups[g].key)

\* records appended to a pre-existing group by a whole run
Merges(txs, th) == Len(txs) - Len(group_similar_transactions(txs, th))

\* size of the first-created group of a whole run
FirstGroupSize(txs, th) ==
    LET gs == group_similar_transactions(txs, th)
    IN  IF gs = <<>> THEN 0 ELSE Len(gs[1].members)

\* C2, as claimed: raising the threshold never increases the number of
\* records merged into a pre-existing group.
C2_MergesMonotone ==
    gpc = "done" =>
        \A t2 \in Thresholds :
            t2 >= similarity_threshold =>
                Merges(transactions, t2) <= Len(transactions) - Len(groups)

\* C2, amended: raising the threshold never increases the number of records
\* appended to the first-created group.
C2_FirstGroupMonotone ==
    gpc = "done" =>
        \A t2 \in Thresholds :
            t2 >= similarity_threshold =>
                FirstGroupSize(transactions, t2)
                    <= (IF groups = <<>> THEN 0 ELSE Len(groups[1].members))

\* a finished run whose first group loses members under a higher threshold
C2_Witness ==
    /\ gpc = "done"
    /\ groups # <<>>
    /\ \E t2 \in Thresholds :
          /\ t2 > similarity_threshold
          /\ FirstGroupSize(transactions, t2) < Len(groups[1].members)
          /\ FirstGroupSize(transactions, t2) > 1

C3_RepresentativeIsFirst ==
    \A g \in DOMAIN groups : groups[g].key = groups[g].members[1].merchant

C3_OnlyGrow ==
    \A g \in DOMAIN groups :
        /\ groups[g].key \in DictKeys(groups')
        /\ IsPrefix(groups[g].members, DictGet(groups', groups[g].key))

\* C3: a group stays in the mapping under its name, its member sequence at
\* one step is a prefix of its member sequence at the next, and its name is
\* the merchant text of its first member.
C3_GroupsOnlyGrow == [](C3_RepresentativeIsFirst) /\ [][C3_OnlyGrow]_vars

\* two groups exist and one of them has grown
C3_Witness ==
    /\ Len(groups) >= 2
    /\ \E g \in DOMAIN groups : Len(groups[g].members) >= 3

C4_EmptyKeysApart ==
    \A g \in DOMAIN groups : \A k \in 1..Len(groups[g].members) :
        (KeyOf(groups[g].members[k]) = <<>>) <=> (Key(groups[g].key) = <<>>)

\* C4, as claimed: for every threshold in 0..100 an empty-key record and a
\* non-empty-key representative never share a group, and vice versa.
C4_EmptyNeverJoins == similarity_threshold \in 0..100 => C4_EmptyKeysApart

\* C4, amended: the same for every threshold in 1..100.
C4_EmptyNeverJoinsPositive == similarity_threshold \in 1..100 => C4_EmptyKeysApart

\* at a positive threshold an empty-key record met a non-empty-key group and
\* a non-empty-key record met an empty-key group
C4_Witness ==
    /\ similarity_threshold \in 1..100
    /\ \E g \in DOMAIN groups, h \in DOMAIN groups :
          /\ Key(groups[g].key) = <<>>
          /\ Key(groups[h].key) # <<>>
          /\ Len(groups[g].members) >= 2
          /\ Len(groups[h].members) >= 2
          /\ groups[g].members[2].id > groups[h].members[1].id
          /\ groups[h].members[2].id > groups[g].members[1].id

\* C6: every member of every group, the one that created it included, scores
\* at least similarity_threshold against the group's representative.
C6_MembersReachThreshold ==
    \A g \in DOMAIN groups : \A k \in 1..Len(groups[g].members) :
        Similarity(groups[g].members[k].merchant, groups[g].key)
            >= similarity_threshold

\* a group holds members with different keys at a positive threshold
C6_Witness ==
    /\ similarity_threshold > 0
    /\ \E g \in DOMAIN groups : \E k \in 1..Len(groups[g].members) :
          /\ KeyOf(groups[g].members[k]) # Key(groups[g].key)
          /\ Len(groups) >= 2

\* C7: two consumed records with equal canonical keys are in the same group.
C7_EqualKeysTogether ==
    \A i \in 1..gi, j \in 1..gi :
        KeyOf(transactions[i]) = KeyOf(transactions[j]) =>
            \E g \in DOMAIN groups :
                {transactions[i], transactions[j]} \subseteq Range(groups[g].members)

\* two records with different texts and equal keys, separated by a record of
\* another group, at the strictest threshold
C7_Witness ==
    /\ similarity_threshold = 100
    /\ \E i \in 1..gi, j \in 1..gi : \E g \in DOMAIN groups, h \in DOMAIN groups :
          /\ i + 1 < j
          /\ g # h
          /\ transactions[i].merchant # transactions[j].merchant
          /\ KeyOf(transactions[i]) = KeyOf(transactions[j])
          /\ {transactions[i], transactions[j]} \subseteq Range(groups[g].members)
          /\ transactions[i + 1] \in Range(groups[h].members)

(***************************************************************************)
(* Claims about normalize_merchant (specification NormSpec).               *)
(***************************************************************************)
\* C5: normalize_merchant returns the empty text only for an input that is
\* empty or holds whitespace only.
C5_EmptyOnlyFromBlank ==
    (npc = "done" /\ normalized = <<>>) => \A i \in DOMAIN name : IsSpace(name[i])

(***************************************************************************)
(* Claims about identify_recurring_transactions (specification RecSpec).   *)
(***************************************************************************)
\* the clusters of the current merchant that line 200 has visited
Checked == IF rpc = "check" THEN 1..ci ELSE {}

\* the claim's test: enough members, and enough gaps between neighbours
\* that are no longer than max_days_between
EnoughShortGaps(similar) ==
    /\ Len(similar) >= min_occurrences
    /\ Cardinality({i \in 1..(Len(similar) - 1) :
                        similar[i + 1].date - similar[i].date <= max_days_between})
          >= min_occurrences - 1

\* C8: the merchant being checked has an entry exactly when one of its
\* visited clusters has at least min_occurrences members and at least
\* min_occurrences - 1 neighbour gaps of at most max_days_between (so a
\* cluster whose gaps are all longer produces none, and one with enough
\* short gaps beside the long ones does).
C8_QualifiesIffEnoughShortGaps ==
    rpc = "check" =>
        ((grouped_transactions[mi].key \in DictKeys(recurring))
            <=> (\E c \in Checked : EnoughShortGaps(amount_groups[c].members)))

\* a reported cluster with an over-long gap among three required occurrences
C8_Witness ==
    /\ rpc = "check"
    /\ min_occurrences = 3
    /\ \E c \in Checked :
          LET similar == amount_groups[c].members
          IN  /\ grouped_transactions[mi].key \in DictKeys(recurring)
              /\ DictGet(recurring, grouped_transactions[mi].key) = similar
              /\ \E i \in 1..(Len(similar) - 1) :
                    similar[i + 1].date - similar[i].date > max_days_between

\* C9: recurring holds at most one entry per merchant name, and the entry of
\* the merchant being checked is the member list of the first visited
\* cluster that qualifies.
C9_FirstQualifyingClusterWins ==
    /\ \A i \in DOMAIN recurring, j \in DOMAIN recurring :
          recurring[i].key = recurring[j].key => i = j
    /\ \A c \in Checked :
          (/\ EnoughShortGaps(amount_groups[c].members)
           /\ \A d \in 1..(c - 1) : ~EnoughShortGaps(amount_groups[d].members))
              => /\ grouped_transactions[mi].key \in DictKeys(recurring)
                 /\ DictGet(recurring, grouped_transactions[mi].key)
                        = amount_groups[c].members

\* two visited clusters of one merchant qualify
C9_Witness ==
    /\ rpc = "check"
    /\ \E c \in Checked, d \in Checked :
          /\ c < d
          /\ EnoughShortGaps(amount_groups[c].members)
          /\ EnoughShortGaps(amount_groups[d].members)
          /\ DictGet(recurring, grouped_transactions[mi].key) = amount_groups[c].members

\* C10: no record with amount 0 is a member of an amount cluster or of an
\* entry of recurring.
C10_ZeroAmountExcluded ==
    /\ \A c \in DOMAIN amount_groups : \A i \in DOMAIN amount_groups[c].members :
          amount_groups[c].members[i].amount # 0
    /\ \A e \in DOMAIN recurring : \A i \in DOMAIN recurring[e].members :
          recurring[e].members[i].amount # 0

\* a finished run reports a merchant whose group holds a zero-amount record
\* dated between two reported ones
C10_Witness ==
    /\ rpc = "done"
    /\ \E g \in DOMAIN grouped_transactions :
          /\ grouped_transactions[g].key \in DictKeys(recurring)
          /\ \E i \in DOMAIN grouped_transactions[g].members :
                /\ grouped_transactions[g].members[i].amount = 0
                /\ \E e \in DOMAIN recurring :
                      /\ recurring[e].key = grouped_transactions[g].key
                      /\ recurring[e].members[1].date
                            < grouped_transactions[g].members[i].date

\* the relative tolerance of the claim: |amount - base| / base <= v, base > 0
InTolerance(amount, base, v) ==
    /\ base > 0
    /\ Abs(amount - base) * v.den <= v.num * base

\* C11: at every step of amount clustering each cluster is keyed by the
\* amount of its first member, and every member's amount is within the
\* relative variance of that base amount.
C11_MembersWithinVarianceOfBase ==
    \A c \in DOMAIN amount_groups :
        LET ms == amount_groups[c].members
        IN  /\ ms # <<>>
            /\ amount_groups[c].key = ms[1].amount
            /\ \A i \in DOMAIN ms :
                  InTolerance(ms[i].amount, amount_groups[c].key, amount_variance_threshold)

\* clustering is under way, one cluster holds two different amounts and a
\* second cluster exists
C11_Witness ==
    /\ rpc = "cluster"
    /\ Len(amount_groups) >= 2
    /\ \E c \in DOMAIN amount_groups : \E i \in DOMAIN amount_groups[c].members :
          amount_groups[c].members[i].amount # amount_groups[c].key

\* position of a record in sorted_transactions
SortedPos(t) == CHOOSE i \in DOMAIN sorted_transactions : sorted_transactions[i] = t

\* four charges on four different days, 9.99 and 29.99 in turn
Alternating(s) ==
    /\ Len(s) = 4
    /\ \A i \in 1..3 : s[i].date < s[i + 1].date
    /\ {s[1].amount, s[2].amount} = {999, 2999}
    /\ s[3].amount = s[1].amount
    /\ s[4].amount = s[2].amount

C12_WitnessFirstFit ==
    /\ rpc = "cluster"
    /\ \E c \in DOMAIN amount_groups, h \in DOMAIN amount_groups :
          \E k \in DOMAIN amount_groups[c].members :
              /\ c < h
              /\ SortedPos(amount_groups[h].members[1]) < SortedPos(amount_groups[c].members[k])
              /\ InTolerance(amount_groups[c].members[k].amount, amount_groups[h].key,
                             amount_variance_threshold)

\* the total of the amounts of a set of records
RECURSIVE TotalOf(_)
TotalOf(S) ==
    IF S = {} THEN 0
    ELSE LET t == CHOOSE x \in S : TRUE IN t.amount + TotalOf(S \ {t})

\* C13: for every entry of the result, the monthly cost derived from it is
\* the arithmetic mean of the amounts of all its transactions, and it is the
\* average that line 218 computed for the cluster.
C13_MonthlyCostIsMean ==
    \A e \in DOMAIN recurring :
        LET ms == recurring[e].members
            mc == monthly_cost(ms)
            avg == avg_amount(ms)
        IN  /\ mc.den > 0
            /\ mc.num * Cardinality(Range(ms)) = mc.den * TotalOf(Range(ms))
            /\ avg.den > 0
            /\ mc.num * avg.den = avg.num * mc.den

\* a returned entry whose mean is the amount of none of its transactions
C13_Witness ==
    /\ rpc = "done"
    /\ \E e \in DOMAIN recurring :
          LET ms == recurring[e].members
          IN  \A i \in DOMAIN ms : ms[i].amount * Len(ms) # TotalOf(Range(ms))

\* the ids of the members of the entry of dict d under key k
IdsUnder(d, k) == [i \in DOMAIN DictGet(d, k) |-> DictGet(d, k)[i].id]

\* C14: the six records of the sample, grouped and analysed with the default
\* parameters, give three groups (the two Netflix lines, the three Amazon
\* lines, the grocery line) and two recurring merchants, the Netflix group
\* at 19.99 a month and the Amazon group at 14.99, and no entry for
\* "Grocery Store".
C14_SampleStatement ==
    /\ (gpc = "done" /\ transactions = ScenarioRecords) =>
          /\ Len(groups) = 3
          /\ [g \in DOMAIN groups |-> groups[g].key]
                = <<Netflix123, AmazonPrime123, GroceryStore>>
          /\ IdsUnder(groups, Netflix123) = <<1, 2>>
          /\ IdsUnder(groups, AmazonPrime123) = <<3, 4, 5>>
          /\ IdsUnder(groups, GroceryStore) = <<6>>
    /\ (rpc = "done" /\ transactions = ScenarioRecords) =>
          /\ Len(recurring) = 2
          /\ DictKeys(recurring) = {Netflix123, AmazonPrime123}
          /\ GroceryStore \notin DictKeys(recurring)
          /\ IdsUnder(recurring, Netflix123) = <<1, 2>>
          /\ IdsUnder(recurring, AmazonPrime123) = <<3, 4, 5>>
          /\ LET mc == monthly_cost(DictGet(recurring, Netflix123))
             IN  mc.num = 1999 * mc.den
          /\ LET mc == monthly_cost(DictGet(recurring, AmazonPrime123))
             IN  mc.num = 1499 * mc.den

\* the analysis of the whole sample has returned
C14_Witness ==
    /\ rpc = "done"
    /\ transactions = ScenarioRecords
    /\ Len(grouped_transactions) = 3
    /\ Len(recurring) = 2

\* group g existed when record i was consumed, record i scores exactly the
\* threshold against it and less against every earlier group
TieAt(i, g) ==
    /\ groups[g].members[1].id < transactions[i].id
    /\ Similarity(transactions[i].merchant, groups[g].key) = similarity_threshold
    /\ \A h \in 1..(g - 1) :
          Similarity(transactions[i].merchant, groups[h].key) < similarity_threshold

\* C15: a consumed record whose score against the first group that can take
\* it equals similarity_threshold is a member of that group, and no group
\* was created for it.
C15_ThresholdInclusive ==
    \A i \in 1..gi : \A g \in DOMAIN groups :
        TieAt(i, g) =>
            /\ transactions[i] \in Range(groups[g].members)
            /\ \A h \in DOMAIN groups : groups[h].members[1] # transactions[i]

\* at threshold 67 a record scoring exactly 67 against the first group of
\* the mapping joined it
C15_Witness ==
    /\ similarity_threshold = 67
    /\ \E i \in 1..gi :
          /\ TieAt(i, 1)
          /\ transactions[i] \in Range(groups[1].members)
          /\ Len(groups) >= 2

\* C16: grouping the member sequence of any one group alone, in the same
\* order and with the same threshold, yields exactly one group, and it
\* holds all of those records (in the same order, under the same name).
C16_RegroupingOneGroup ==
    \A g \in DOMAIN groups :
        LET again == group_similar_transactions(groups[g].members, similarity_threshold)
        IN  /\ Len(again) = 1
            /\ again[1].members = groups[g].members
            /\ again[1].key = groups[g].key

\* a finished run with two groups, one of them holding two members that
\* score below the threshold against each other
C16_Witness ==
    /\ gpc = "done"
    /\ Len(groups) >= 2
    /\ \E g \in DOMAIN groups : \E i, k \in DOMAIN groups[g].members :
          Similarity(groups[g].members[i].merchant, groups[g].members[k].merchant)
              < similarity_threshold

\* C17: a record with a negative amount that reaches the clusterer makes the
\* call fail: no amount cluster ever holds such a record, and the call does
\* not return once one has been visited.
C17_NegativeAmountFaults ==
    /\ \A c \in DOMAIN amount_groups : \A i \in DOMAIN amount_groups[c].members :
          amount_groups[c].members[i].amount >= 0
    /\ rpc = "done" =>
          \A g \in DOMAIN grouped_transactions :
              Len(grouped_transactions[g].members) >= min_occurrences =>
                  \A i \in DOMAIN grouped_transactions[g].members :
                      grouped_transactions[g].members[i].amount >= 0

\* the group has enough records and one of its amount clusters qualifies
HasQualifyingCluster(g) ==
    /\ Len(grouped_transactions[g].members) >= min_occurrences
    /\ LET ags == AmountClusters(grouped_transactions[g].members, amount_variance_threshold)
       IN  \E c \in DOMAIN ags : EnoughShortGaps(ags[c].members)

\* C18: on records with non-negative amounts the call runs to its return:
\* no cluster has base amount 0, so line 189 never divides by zero; every
\* loop is at a position from which it steps or ends; and the result holds
\* exactly the merchants that have a qualifying cluster, a merchant without
\* one being absent.
C18_ReturnsWithoutRaising ==
    /\ \A c \in DOMAIN amount_groups : amount_groups[c].key # 0
    /\ rpc \in {"merchant", "cluster", "check", "done"}
    /\ mi \in 0..Len(grouped_transactions)
    /\ rpc \in {"cluster", "check"} => mi >= 1 /\ ti \in 0..Len(sorted_transactions)
    /\ rpc = "check" => ci \in 0..Len(amount_groups)
    /\ rpc = "done" =>
          /\ mi = Len(grouped_transactions)
          /\ \A g \in DOMAIN grouped_transactions :
                (grouped_transactions[g].key \in DictKeys(recurring))
                    <=> HasQualifyingCluster(g)

\* a finished call on two merchants: one reported, one with enough records
\* and a zero amount among them that is absent from the result
C18_Witness ==
    /\ rpc = "done"
    /\ recurring # <<>>
    /\ \E g \in DOMAIN grouped_transactions :
          /\ Len(grouped_transactions[g].members) >= min_occurrences
          /\ grouped_transactions[g].key \notin DictKeys(recurring)
          /\ \E i \in DOMAIN grouped_transactions[g].members :
                grouped_transactions[g].members[i].amount = 0

\* the partition of the records that a mapping of groups stands for
PartitionOf(gs) == {Range(gs[g].members) : g \in DOMAIN gs}

\* the records of txs in the order p
Reorder(txs, p) == [i \in DOMAIN txs |-> txs[p[i]]]

\* C19: the grouping depends on the order of the input: the three records
\* with keys aba, ab, ba in this order end as one group at threshold 70,
\* and the same records in the order ab, ba, aba end as two.
C19_OrderDependent ==
    (/\ gpc = "done"
     /\ similarity_threshold = DefaultSimilarityThreshold
     /\ [i \in DOMAIN transactions |-> transactions[i].merchant]
           = << <<"a","b","a">>, <<"a","b">>, <<"b","a">> >>)
        => LET other == group_similar_transactions(Reorder(transactions, <<2, 3, 1>>),
                                                   similarity_threshold)
           IN  /\ Len(groups) = 1
               /\ Len(other) = 2
               /\ PartitionOf(other) # PartitionOf(groups)

\* a finished run, and an ordering of the same records that the grouper
\* partitions differently
C19_Witness ==
    /\ gpc = "done"
    /\ similarity_threshold = DefaultSimilarityThreshold
    /\ \E p \in Permutations(DOMAIN transactions) :
          PartitionOf(group_similar_transactions(Reorder(transactions, p),
                                                 similarity_threshold))
              # PartitionOf(groups)

\* the union of two mappings of groups: member lists of equal names are
\* concatenated, the other groups are kept
RECURSIVE MergeFrom(_, _, _)
MergeFrom(d, e, i) ==
    IF i > Len(e) THEN d
    ELSE MergeFrom(IF e[i].key \in DictKeys(d)
                   THEN DictSet(d, e[i].key, DictGet(d, e[i].key) \o e[i].members)
                   ELSE Append(d, e[i]),
                   e, i + 1)

\* grouping the first k records and the rest apart, then uniting the groups
Sharded(txs, k, th) ==
    MergeFrom(group_similar_transactions(SubSeq(txs, 1, k), th),
              group_similar_transactions(SubSeq(txs, k + 1, Len(txs)), th), 1)

\* C20: grouping per shard differs from a single pass: the records with
\* keys ab, aba, ba at threshold 70 end as {ab, aba}, {ba} in one pass, and
\* as {ab}, {aba, ba} when the first record is one shard and the other two
\* are the second.
C20_ShardingDiffers ==
    (/\ gpc = "done"
     /\ similarity_threshold = DefaultSimilarityThreshold
     /\ [i \in DOMAIN transactions |-> transactions[i].merchant]
           = << <<"a","b">>, <<"a","b","a">>, <<"b","a">> >>)
        => LET t == transactions
           IN  /\ PartitionOf(groups) = {{t[1], t[2]}, {t[3]}}
               /\ PartitionOf(Sharded(t, 1, similarity_threshold)) = {{t[1]}, {t[2], t[3]}}

\* a finished run, and a split of its input into two non-empty shards whose
\* united groups are another partition
C20_Witness ==
    /\ gpc = "done"
    /\ similarity_threshold = DefaultSimilarityThreshold
    /\ \E k \in 1..(Len(transactions) - 1) :
          PartitionOf(Sharded(transactions, k, similarity_threshold)) # PartitionOf(groups)

C23_EmptyAndSingle ==
    /\ (gpc = "done" /\ transactions = <<>>) => groups = <<>>
    /\ (rpc = "done" /\ grouped_transactions = <<>>) => recurring = <<>>
    /\ (gpc = "done" /\ Len(transactions) = 1) =>
          groups = << [key |-> transactions[1].merchant, members |-> transactions] >>
    /\ \A m \in MerchantPool :
          LET t == Transaction(1, 0, m, 1000)
          IN  group_similar_transactions(<<t>>, similarity_threshold)
                  = << [key |-> m, members |-> <<t>>] >>

\* grouping and detection have both returned on the empty input
C23_Witness ==
    /\ rpc = "done"
    /\ gpc = "done"
    /\ transactions = <<>>
    /\ grouped_transactions = <<>>
    /\ recurring = <<>>

(***************************************************************************)
(* Claims about LinkFinder (specification LinkSpec).                       *)
(***************************************************************************)
\* a known merchant scoring at least the threshold against the merchant of
\* call j was added after call i
MatchAddedBetween(i, j) ==
    \E k \in calls[j].keys \ calls[i].keys :
        Score(LinkKey[calls[j].merchant], k) >= DefaultLinkThreshold

\* C24: after a call of get_cancellation_link that fell through to the web
\* search has returned a link, every later call for the same merchant, with
\* no matching known merchant added in between, returns that same link and
\* sends no HTTP request.
C24_CachedLinkReturned ==
    \A i, j \in DOMAIN calls :
        (/\ i < j
         /\ calls[i].merchant = calls[j].merchant
         /\ calls[i].searched
         /\ calls[i].result.kind # "None"
         /\ ~MatchAddedBetween(i, j))
        => /\ calls[j].result = calls[i].result
           /\ calls[j].sent = 0

\* a search found a result, an unrelated merchant was added, and the same
\* merchant was looked up again
C24_Witness ==
    \E i, j \in DOMAIN calls :
        /\ i < j
        /\ calls[i].merchant = calls[j].merchant
        /\ calls[i].searched
        /\ calls[i].sent = 1
        /\ calls[i].result.kind = "result"
        /\ calls[j].keys # calls[i].keys
        /\ ~MatchAddedBetween(i, j)
        /\ calls[j].result = calls[i].result
        /\ calls[j].sent = 0

\* C25: any two consecutive HTTP requests of one LinkFinder are at least
\* min_request_interval apart, also when the earlier one raised.
C25_RequestsSpaced ==
    \A i \in 1..(Len(requests) - 1) :
        requests[i + 1].at - requests[i].at >= min_request_interval

\* what holds of the code: a request follows an answered request by at
\* least min_request_interval
C25_SpacedAfterAnswer ==
    \A i \in 1..(Len(requests) - 1) :
        ~requests[i].raised =>
            requests[i + 1].at - requests[i].at >= min_request_interval

(***************************************************************************)
(* Claims about CSVParser (specification CsvSpec).                         *)
(***************************************************************************)
\* the rows whose description is not one of the skipped kinds, in file order
KeptRows == SelectSeq(file_rows, LAMBDA row : ~Skipped(row.Description))

\* C26: parse_csv on an AMEX file returns, in file order, one Transaction
\* for every row whose description is not a payment-received,
\* interest-charge or annual-fee row, each carrying a credit_card field equal
\* to the file's base name; constructing a Transaction with a credit_card
\* argument succeeds.
C26_AmexRowsParsed ==
    /\ ppc # "TypeError"
    /\ ppc = "returned" =>
          /\ Len(csv_transactions) = Len(KeptRows)
          /\ \A i \in DOMAIN csv_transactions :
                /\ csv_transactions[i].merchant = Strip(KeptRows[i].Description)
                /\ csv_transactions[i].credit_card = credit_card

(***************************************************************************)
(* More claims about group_similar_transactions (specification Spec).      *)
(***************************************************************************)
\* the places <<group, position>> at which gs holds the record t
Places(gs, t) ==
    UNION { {<<g, k>> : k \in {k \in DOMAIN gs[g].members : gs[g].members[k] = t}}
            : g \in DOMAIN gs }

\* the number of members over all groups
RECURSIVE TotalMembers(_, _)
TotalMembers(gs, g) ==
    IF g > Len(gs) THEN 0 ELSE Len(gs[g].members) + TotalMembers(gs, g + 1)

\* C27: whatever the threshold in 0..100, every record consumed so far sits
\* in exactly one group, exactly once, no other record sits in a group, and
\* the groups' sizes add up to the number of records consumed; at the return
\* that is the whole input.
C27_Partition ==
    /\ \A i \in 1..Len(transactions) :
          Cardinality(Places(groups, transactions[i])) = IF i <= gi THEN 1 ELSE 0
    /\ TotalMembers(groups, 1) = gi
    /\ gpc = "done" => gi = Len(transactions)
    /\ \A g \in DOMAIN groups : groups[g].members # <<>>

\* a finished run whose input held the same merchant text twice and a text
\* with an empty key, and which made more than one group
C27_Witness ==
    /\ gpc = "done"
    /\ Len(groups) >= 2
    /\ \E i, j \in DOMAIN transactions :
          i # j /\ transactions[i].merchant = transactions[j].merchant
    /\ \E i \in DOMAIN transactions : KeyOf(transactions[i]) = <<>>

(***************************************************************************)
(* More claims about identify_recurring_transactions (specifications       *)
(* GapSpec and RecSpec).                                                   *)
(***************************************************************************)
\* member i of ms lies more than maxd days from each of its two neighbours
Isolated(ms, i, maxd) ==
    /\ 1 < i
    /\ i < Len(ms)
    /\ ms[i].date - ms[i - 1].date > maxd
    /\ ms[i + 1].date - ms[i].date > maxd

\* C28: every entry of the result is keyed by a key of the input mapping and
\* its list is the complete member list of one amount cluster of that group,
\* in date order, each record once: members far from both neighbours are in
\* it, records of another cluster or another group are not.
C28_EntryIsWholeCluster ==
    \A e \in DOMAIN recurring :
        LET ms == recurring[e].members
        IN  /\ recurring[e].key \in DictKeys(grouped_transactions)
            /\ LET group == DictGet(grouped_transactions, recurring[e].key)
                   clusters == AmountClusters(group, amount_variance_threshold)
               IN  /\ \E c \in DOMAIN clusters : clusters[c].members = ms
                   /\ \A i \in DOMAIN ms : ms[i] \in Range(group)
                   /\ \A t \in Range(group) :
                         (t.amount # 0 /\ t \notin Range(ms)) =>
                             \E c \in DOMAIN clusters :
                                 /\ t \in Range(clusters[c].members)
                                 /\ clusters[c].members # ms
            /\ \A i \in 1..(Len(ms) - 1) : ms[i].date <= ms[i + 1].date
            /\ \A i, j \in DOMAIN ms : ms[i] = ms[j] => i = j

\* the call has returned an entry that holds a member far from both its
\* neighbours, while the group holds a record of another cluster as well
C28_Witness ==
    /\ rpc = "done"
    /\ \E e \in DOMAIN recurring :
          /\ \E i \in DOMAIN recurring[e].members :
                Isolated(recurring[e].members, i, max_days_between)
          /\ Len(DictGet(grouped_transactions, recurring[e].key))
                > Len(recurring[e].members)

\* two non-zero records of ms at different positions share a date and each
\* amount is within the variance of the other
SameDayPair(ms, v) ==
    \E i, j \in DOMAIN ms :
        /\ i # j
        /\ ms[i].date = ms[j].date
        /\ ms[i].amount # 0
        /\ ms[j].amount # 0
        /\ WithinVariance(ms[i].amount, ms[j].amount, v)
        /\ WithinVariance(ms[j].amount, ms[i].amount, v)

\* one amount cluster of the group ms holds two records of the same date
SameDayInCluster(ms, v) ==
    LET clusters == AmountClusters(ms, v)
    IN  \E c \in DOMAIN clusters : \E i, j \in DOMAIN clusters[c].members :
            i # j /\ clusters[c].members[i].date = clusters[c].members[j].date

\* C29, as stated: under the default parameters a group that holds two
\* non-zero records of the same date with amounts within the variance is
\* reported as recurring.
C29_SameDayReported ==
    (rpc = "done" /\ min_occurrences = DefaultMinOccurrences) =>
        \A g \in DOMAIN grouped_transactions :
            SameDayPair(grouped_transactions[g].members, amount_variance_threshold)
                => grouped_transactions[g].key \in DictKeys(recurring)

\* C29, amended: under the default parameters a group in which two records
\* of one amount cluster share a date is reported as recurring: the gap of 0
\* days between them is a retained gap.
C29_SameDayClusterReported ==
    (rpc = "done" /\ min_occurrences = DefaultMinOccurrences) =>
        \A g \in DOMAIN grouped_transactions :
            SameDayInCluster(grouped_transactions[g].members, amount_variance_threshold)
                => grouped_transactions[g].key \in DictKeys(recurring)

\* the call has returned; a group of exactly two records, both of one date,
\* is an entry of the result
C29_Witness ==
    /\ rpc = "done"
    /\ \E g \in DOMAIN grouped_transactions :
          LET ms == grouped_transactions[g].members
          IN  /\ Len(ms) = 2
              /\ ms[1].date = ms[2].date
              /\ ms[1].amount # ms[2].amount
              /\ grouped_transactions[g].key \in DictKeys(recurring)
              /\ DictGet(recurring, grouped_transactions[g].key) = ms

(***************************************************************************)
(* Claims about AppWindow (specification AppSpec).                         *)
(***************************************************************************)
\* an analysis was started, and every thread and the GUI thread are at rest
AllFinished ==
    /\ threads # <<>>
    /\ main.pc = "idle"
    /\ \A t \in DOMAIN threads : threads[t].pc = "finished"

\* the result of the analysis started last
LastResult == threads[Len(threads)].result

\* the costs of the rows shown, added up
RECURSIVE RowTotal(_)
RowTotal(i) == IF i > Len(tree) THEN 0 ELSE ParseCost(tree[i].cost) + RowTotal(i + 1)

TableMatches ==
    /\ \A i \in DOMAIN tree : tree[i].merchant \in DictKeys(LastResult)
    /\ \A m \in DictKeys(LastResult) :
          Cardinality({i \in DOMAIN tree : tree[i].merchant = m})
              = IF m \in removed THEN 0 ELSE 1
    /\ total_savings = RowTotal(1)

C30_WithCardedRecords ==
    (/\ AllFinished
     /\ \A t \in DOMAIN threads :
           /\ threads[t].result # <<>>
           /\ \A e \in DOMAIN threads[t].result :
                 MostRecent(threads[t].result[e].members).credit_card.present)
    => TableMatches

====
